---- MODULE Spec2Model ----
(***************************************************************************)
(* Molecule: the top-level driver (molecule.py), the step runner           *)
(* (molecule/handlers.py, Runner.run), the spec parser                     *)
(* (molecule/settings.py, SpecParser) and the spec preprocessor            *)
(* (molecule/settings.py, SpecPreprocessor, with eval_shell_argument of    *)
(* molecule/utils.py).                                                     *)
(*                                                                         *)
(* Python values that the code tests for truth or compares with 0 are      *)
(* records [type, val], so that "if rc:" and "rc == 0" are modelled by     *)
(* what Python does for an int and for None.  A Python string is a         *)
(* sequence of one-character strings.                                      *)
(***************************************************************************)
EXTENDS Integers, Sequences, FiniteSets, TLC

\* ---------------------------------------------------------------- bounds
MaxSpecs == 2
MaxSteps == 2
MaxLines == 3

\* ---------------------------------------------------------- Python values
PyInt(n) == [type |-> "int", val |-> n]
PyStr(s) == [type |-> "str", val |-> s]
None == [type |-> "NoneType", val |-> 0]

\* "if rc:" for an int or None
Truthy(x) == x.type = "int" /\ x.val # 0
\* "rc == 0"
EqZero(x) == x.type = "int" /\ x.val = 0
\* "rc != 0"
NeZero(x) == ~EqZero(x)

\* a status code other than 0; a hook that returns no value (None) has
\* returned no status code
NonZeroStatus(x) == x.type = "int" /\ x.val # 0

\* values a step's hook may return, and exceptions it may raise
HookValues == {PyInt(0), None, PyInt(5), PyInt(-1)}
HookExceptions == {"RuntimeError", "KeyboardInterrupt"}

\* the four hooks of GenericExecutionStep in the order Runner.run calls them
Hooks == <<"setup", "pre_run", "run", "post_run">>

\* --------------------------------------------------------- Python strings
\* characters str.strip() removes
Whitespace == {" ", "\t", "\n", "\r"}

RECURSIVE LStrip(_)
LStrip(s) ==
    IF s = <<>> THEN s
    ELSE IF s[1] \in Whitespace THEN LStrip(Tail(s)) ELSE s

RECURSIVE RStrip(_)
RStrip(s) ==
    IF s = <<>> THEN s
    ELSE IF s[Len(s)] \in Whitespace THEN RStrip(SubSeq(s, 1, Len(s) - 1))
    ELSE s

\* s.strip()
Strip(s) == RStrip(LStrip(s))

\* s.find(c) + 1 and s.rfind(c) + 1 for a character c: 0 when absent
Find(s, c) ==
    IF \E i \in 1..Len(s) : s[i] = c
    THEN CHOOSE i \in 1..Len(s) : s[i] = c /\ \A j \in 1..(i - 1) : s[j] # c
    ELSE 0

RFind(s, c) ==
    IF \E i \in 1..Len(s) : s[i] = c
    THEN CHOOSE i \in 1..Len(s) :
            s[i] = c /\ \A j \in (i + 1)..Len(s) : s[j] # c
    ELSE 0

\* s.startswith(p)
StartsWith(s, p) == Len(p) <= Len(s) /\ SubSeq(s, 1, Len(p)) = p

\* s.rsplit(c, 1)[0]
RSplitHead(s, c) ==
    IF RFind(s, c) = 0 THEN s ELSE SubSeq(s, 1, RFind(s, c) - 1)

\* s.split(c): the pieces of s between the occurrences of c
RECURSIVE SplitAll(_, _)
SplitAll(s, c) ==
    IF Find(s, c) = 0 THEN <<s>>
    ELSE <<SubSeq(s, 1, Find(s, c) - 1)>> \o
         SplitAll(SubSeq(s, Find(s, c) + 1, Len(s)), c)

\* the decimal digits and their values, for int(string)
DigitValue ==
    [d \in {"0", "1", "2", "3", "4", "5", "6", "7", "8", "9"} |->
        CASE d = "0" -> 0 [] d = "1" -> 1 [] d = "2" -> 2 [] d = "3" -> 3
          [] d = "4" -> 4 [] d = "5" -> 5 [] d = "6" -> 6 [] d = "7" -> 7
          [] d = "8" -> 8 [] d = "9" -> 9]

RECURSIVE DecimalValue(_)
DecimalValue(s) ==
    IF s = <<>> THEN 0
    ELSE 10 * DecimalValue(SubSeq(s, 1, Len(s) - 1)) + DigitValue[s[Len(s)]]

\* sequences over S of length at most n
SeqsUpTo(S, n) == UNION {[1..m -> S] : m \in 0..n}

\* spec file names and step classes
SpecFiles == 1..MaxSpecs
StepClasses == 1..MaxSteps

\* sequences without repetition over S
RECURSIVE InjSeqs(_)
InjSeqs(S) ==
    IF S = {} THEN {<<>>}
    ELSE {<<>>} \cup UNION {{<<x>> \o s : s \in InjSeqs(S \ {x})} : x \in S}

VARIABLES
    pc,               \* position of the driver / of Runner.run
    parse_data,       \* molecule.py: result of molecule.cmdline.parse()
    el_idx,           \* molecule.py: index of el in molecule_data_order
    runners,          \* spec files for which a Runner was constructed
    results,          \* values returned by the calls of Runner.run
    exit_status,      \* argument of SystemExit / interpreter exit status
    execution_order,  \* Runner.execution_order
    count,            \* Runner.run: count
    hook,             \* Runner.run: index in Hooks of the next hook
    rc,               \* Runner.run: rc
    exc,              \* exception in flight
    instantiated,     \* step classes instantiated by this Runner.run
    ncalls,           \* per instantiated step: hooks called
    nkills,           \* per instantiated step: calls of kill
    nonzero,          \* non-zero statuses returned by hooks in this run
    steplog           \* calls made on the current step object "my"

runvars == <<pc, parse_data, el_idx, runners, results, exit_status,
             execution_order, count, hook, rc, exc, instantiated,
             ncalls, nkills, nonzero, steplog>>

VARIABLES
    content,          \* what SpecPreprocessor.parse() returns for filepath
                      \* (the file does not change while it is parsed)
    ppc,              \* position of the SpecParser's caller
    plugin,           \* SpecParser.__plugin
    data,             \* SpecParser.parse: data
    line_idx,         \* SpecParser.parse: index in data of the next line
    mydict,           \* SpecParser.parse: mydict
    old_key,          \* SpecParser.parse: old_key
    callbacks,        \* calls of schema parsers and verifiers so far
    error,            \* exception raised to the SpecParser's caller
    config,           \* value returned by SpecParser.parse
    preprocessed      \* calls of self._preprocessor.parse() so far

parsevars == <<content, ppc, plugin, data, line_idx, mydict, old_key,
               callbacks, error, config, preprocessed>>

VARIABLES
    fs,               \* the readable files: path |-> text
    expanders,        \* SpecPreprocessor.__expanders
    add_log,          \* calls of add_expander so far, with their outcome
    pre_pc,           \* position of the SpecPreprocessor's caller
    pre_out           \* outcome of SpecPreprocessor.parse()

prevars == <<fs, expanders, add_log, pre_pc, pre_out>>

VARIABLES
    shell,            \* the shell that subprocess.call started
    sh_output,        \* bytes that the shell command writes in all
    sh_written,       \* bytes that the shell has written to the pipe
    pipe,             \* bytes held by the pipe
    exit_st,          \* eval_shell_argument: exit_st
    ev_pc,            \* position of eval_shell_argument
    evaluated         \* eval_shell_argument: bytes in evaluated

pipevars == <<shell, sh_output, sh_written, pipe, exit_st, ev_pc, evaluated>>

vars == <<runvars, parsevars, prevars, pipevars>>

NoExc == "none"
NoStatus == [type |-> "unset", val |-> 0]

molecule_data_order == IF parse_data = None THEN <<>> ELSE parse_data.order

\* ------------------------------------------------- skel.py, the plugins
EXECUTION_STRATEGY_KEY ==
    <<"e", "x", "e", "c", "u", "t", "i", "o", "n", "_",
      "s", "t", "r", "a", "t", "e", "g", "y">>

\* the reserved key of settings.py 285
PLUGIN_KEY == <<"_", "_", "p", "l", "u", "g", "i", "n", "_", "_">>

\* the path given to SpecParser
filepath == <<"a", ".", "s", "p", "e", "c">>

\* GenericSpec._cast_integer: int(string), None on ValueError
\* (strings of decimal digits, with an optional sign, are the ints here)
_cast_integer(v) ==
    LET str == v.val
        digits == IF str # <<>> /\ str[1] \in {"-", "+"} THEN Tail(str) ELSE str
    IN IF digits # <<>> /\ \A i \in 1..Len(digits) : digits[i] \in DOMAIN DigitValue
       THEN PyInt(IF str[1] = "-" THEN 0 - DecimalValue(digits)
                  ELSE DecimalValue(digits))
       ELSE None

\* GenericSpec._comma_separate: the stripped, non-empty pieces between ","
RECURSIVE StripNonEmpty(_)
StripNonEmpty(pieces) ==
    IF pieces = <<>> THEN <<>>
    ELSE IF Strip(Head(pieces)) # <<>>
         THEN <<Strip(Head(pieces))>> \o StripNonEmpty(Tail(pieces))
         ELSE StripNonEmpty(Tail(pieces))

_comma_separate(v) == [type |-> "list", val |-> StripNonEmpty(SplitAll(v.val, ","))]

\* the callables a schema entry names
ApplyParser(name, v) ==
    CASE name = "_cast_integer" -> _cast_integer(v)
      [] name = "_comma_separate" -> _comma_separate(v)
      [] name = "strip" -> PyStr(Strip(v.val))

\* a verifier that accepts every value
ApplyVerifier_AcceptsAll(name, v) == TRUE

ApplyVerifier(name, v) ==
    CASE name = "is_not_none" -> v.type # "NoneType"
      [] name = "non_empty" -> Len(v.val) # 0

SchemaEntry(parser, verifier) ==
    [type |-> "dict", parser |-> parser, verifier |-> verifier]

\* GenericSpec.parameters() of the two registered plugins: a string
\* parameter "k", an integer parameter "n" and a list parameter "l"
PluginParameters ==
    (<<"k">> :> SchemaEntry("strip", "non_empty")) @@
    (<<"n">> :> SchemaEntry("_cast_integer", "is_not_none")) @@
    (<<"l">> :> SchemaEntry("_comma_separate", "non_empty"))

\* PluginFactory.get_spec_plugins(): execution strategy -> plugin class,
\* each with its vital_parameters() and parameters()
spec_plugins ==
    (<<"a">> :> [type |-> "class", vital_parameters |-> << <<"k">> >>,
                 parameters |-> PluginParameters]) @@
    (<<"b">> :> [type |-> "class", vital_parameters |-> << <<"k">>, <<"n">> >>,
                 parameters |-> PluginParameters])

NoPlugin == <<"<", "n", "o", "n", "e", ">">>
vital_parameters == spec_plugins[plugin].vital_parameters
parameters == spec_plugins[plugin].parameters

\* lines a preprocessed spec file is made of
LinePool ==
    { EXECUTION_STRATEGY_KEY \o <<":", " ", "a">>,
      EXECUTION_STRATEGY_KEY \o <<":", " ", "b">>,
      EXECUTION_STRATEGY_KEY \o <<":", "c">>,
      EXECUTION_STRATEGY_KEY \o <<"_", "x", ":", " ", "b">>,
      <<"k", ":", " ", "v">>,
      <<" ", "k", " ", ":", "u", " ", "#", "c">>,
      <<"k", ":", "v", "#", "a", "#", "b">>,
      <<"l", ":", " ", "x", ",", " ", "y">>,
      <<"l", ":", "z">>,
      <<"n", ":", " ", "7">>,
      <<"n", ":", " ", "8">>,
      <<"n", ":", " ", "x">>,
      <<"#", "k", ":", "v">>,
      <<" ", "#", "c">>,
      <<" ", "w">> }

NoError == [type |-> "none"]
NoConfig == [type |-> "none"]
EmptyDict == [k \in {} |-> None]

ParserIdle ==
    /\ content = [type |-> "list", lines |-> <<>>]
    /\ ppc = "idle"
    /\ plugin = NoPlugin
    /\ data = <<>>
    /\ line_idx = 0
    /\ mydict = EmptyDict
    /\ old_key = None
    /\ callbacks = <<>>
    /\ error = NoError
    /\ config = NoConfig
    /\ preprocessed = 0

NoOut == [type |-> "none", lines |-> <<>>, expanded |-> <<>>, calls |-> <<>>,
          imports |-> <<>>, shells |-> <<>>]

PreIdle ==
    /\ fs = <<>>
    /\ expanders = <<>>
    /\ add_log = <<>>
    /\ pre_pc = "idle"
    /\ pre_out = NoOut

PipeIdle ==
    /\ shell = "idle"
    /\ sh_output = 0
    /\ sh_written = 0
    /\ pipe = 0
    /\ exit_st = 0
    /\ ev_pc = "idle"
    /\ evaluated = 0

\* ------------------------------------------------------------ molecule.py
Init ==
    /\ ParserIdle
    /\ PreIdle
    /\ PipeIdle
    /\ parse_data \in {None} \cup
          {[type |-> "tuple", order |-> o] : o \in InjSeqs(SpecFiles)}
    /\ pc = "start"
    /\ el_idx = 0
    /\ runners = <<>>
    /\ results = <<>>
    /\ exit_status = NoStatus
    /\ execution_order = <<>>
    /\ count = 0
    /\ hook = 1
    /\ rc = PyInt(0)
    /\ exc = NoExc
    /\ instantiated = <<>>
    /\ ncalls = <<>>
    /\ nkills = <<>>
    /\ nonzero = <<>>
    /\ steplog = <<>>

RunnerUnchanged ==
    UNCHANGED <<execution_order, count, hook, rc, exc, instantiated,
                ncalls, nkills, nonzero, steplog>>

\* molecule.py 29-35: no parse data or no spec file: exit 1
Main ==
    /\ UNCHANGED <<parsevars, prevars, pipevars>>
    /\ pc = "start"
    /\ IF parse_data = None \/ molecule_data_order = <<>>
       THEN /\ pc' = "exit"
            /\ exit_status' = PyInt(1)
            /\ el_idx' = el_idx
       ELSE /\ pc' = "for_el"
            /\ exit_status' = exit_status
            /\ el_idx' = 1
    /\ UNCHANGED <<parse_data, runners, results>>
    /\ RunnerUnchanged

\* molecule.py 37-38 and 51, handlers.py 26-28 and 35-36:
\* the next el gets a Runner, whose execution_order is what the plugin's
\* execution_steps() returns; after the last el the driver exits with 0
NewRunner ==
    /\ UNCHANGED <<parsevars, prevars, pipevars>>
    /\ pc = "for_el"
    /\ IF el_idx <= Len(molecule_data_order)
       THEN /\ \E order \in InjSeqs(StepClasses) :
                  execution_order' = order
            /\ runners' = Append(runners, molecule_data_order[el_idx])
            /\ pc' = "for_myclass"
            /\ count' = 0
            /\ hook' = 1
            /\ rc' = PyInt(0)
            /\ exc' = NoExc
            /\ instantiated' = <<>>
            /\ ncalls' = <<>>
            /\ nkills' = <<>>
            /\ nonzero' = <<>>
            /\ steplog' = <<>>
            /\ exit_status' = exit_status
       ELSE /\ pc' = "exit"
            /\ exit_status' = PyInt(0)
            /\ UNCHANGED runners
            /\ RunnerUnchanged
    /\ UNCHANGED <<parse_data, el_idx, results>>

\* ------------------------------------------------ handlers.py Runner.run
\* handlers.py 41-50 and 81-86: next class of execution_order is
\* instantiated, or the loop is over and run returns 0
Instantiate ==
    /\ UNCHANGED <<parsevars, prevars, pipevars>>
    /\ pc = "for_myclass"
    /\ IF count < Len(execution_order)
       THEN /\ count' = count + 1
            /\ instantiated' = Append(instantiated, execution_order[count + 1])
            /\ ncalls' = Append(ncalls, 0)
            /\ nkills' = Append(nkills, 0)
            /\ steplog' = <<>>
            /\ rc' = PyInt(0)
            /\ hook' = 1
            /\ pc' = "hooks"
            /\ UNCHANGED results
       ELSE /\ pc' = "returned"
            /\ results' = Append(results, PyInt(0))
            /\ UNCHANGED <<count, instantiated, ncalls, nkills, steplog,
                           rc, hook>>
    /\ UNCHANGED <<parse_data, el_idx, runners, exit_status,
                   execution_order, exc, nonzero>>

\* a Runner.run that leaves the while loop one hook early
AfterHook_NoPostRun(h, v) ==
    IF Truthy(v) \/ h >= Len(Hooks) - 1 THEN "kill" ELSE "hooks"

\* a Runner.run that breaks only on a positive status
AfterHook_PositiveOnly(h, v) ==
    IF (v.type = "int" /\ v.val > 0) \/ h = Len(Hooks) THEN "kill" ELSE "hooks"

\* where Runner.run goes after a hook returned v (handlers.py 56-72):
\* a true value breaks out of the while, as does the end of post_run
AfterHook(h, v) == IF Truthy(v) \/ h = Len(Hooks) THEN "kill" ELSE "hooks"

\* handlers.py 53-72: the next hook of my is called and returns v
HookReturns ==
    /\ UNCHANGED <<parsevars, prevars, pipevars>>
    /\ pc = "hooks"
    /\ \E v \in HookValues :
         /\ rc' = v
         /\ steplog' = Append(steplog,
                [hook |-> Hooks[hook], kind |-> "return", val |-> v])
         /\ pc' = AfterHook(hook, v)
         /\ nonzero' = IF NonZeroStatus(v)
                       THEN Append(nonzero, v) ELSE nonzero
         /\ hook' = IF AfterHook(hook, v) = "hooks" THEN hook + 1 ELSE hook
    /\ ncalls' = [ncalls EXCEPT ![count] = @ + 1]
    /\ UNCHANGED <<parse_data, el_idx, runners, results, exit_status,
                   execution_order, count, exc, instantiated, nkills>>

\* handlers.py 53-73: the next hook of my is called and raises e
HookRaises ==
    /\ UNCHANGED <<parsevars, prevars, pipevars>>
    /\ pc = "hooks"
    /\ \E e \in HookExceptions :
         /\ exc' = e
         /\ steplog' = Append(steplog,
                [hook |-> Hooks[hook], kind |-> "raise", val |-> e])
    /\ ncalls' = [ncalls EXCEPT ![count] = @ + 1]
    /\ pc' = "except"
    /\ UNCHANGED <<parse_data, el_idx, runners, results, exit_status,
                   execution_order, count, hook, rc, instantiated, nkills,
                   nonzero>>

\* an except clause that raises again without calling kill
ExceptKill_NoKill ==
    /\ UNCHANGED <<parsevars, prevars, pipevars>>
    /\ pc = "except"
    /\ pc' = "raised"
    /\ UNCHANGED <<parse_data, el_idx, runners, results, exit_status,
                   execution_order, count, hook, rc, exc, instantiated,
                   ncalls, nkills, nonzero, steplog>>

\* an except clause that turns the exception into a status code
ExceptKill_Swallow ==
    /\ UNCHANGED <<parsevars, prevars, pipevars>>
    /\ pc = "except"
    /\ steplog' = Append(steplog,
           [hook |-> "kill", kind |-> "call", val |-> FALSE])
    /\ nkills' = [nkills EXCEPT ![count] = @ + 1]
    /\ pc' = "returned"
    /\ results' = Append(results, PyInt(1))
    /\ UNCHANGED <<parse_data, el_idx, runners, exit_status,
                   execution_order, count, hook, rc, exc, instantiated,
                   ncalls, nonzero>>

\* handlers.py 73-75: my.kill(success = False), then the exception is
\* raised again and leaves Runner.run
ExceptKill ==
    /\ UNCHANGED <<parsevars, prevars, pipevars>>
    /\ pc = "except"
    /\ steplog' = Append(steplog,
           [hook |-> "kill", kind |-> "call", val |-> FALSE])
    /\ nkills' = [nkills EXCEPT ![count] = @ + 1]
    /\ pc' = "raised"
    /\ UNCHANGED <<parse_data, el_idx, runners, results, exit_status,
                   execution_order, count, hook, rc, exc, instantiated,
                   ncalls, nonzero>>

\* a kill that is always told of success
KillSuccess_Always(r) == TRUE

\* the success argument of handlers.py 77
KillSuccess(r) == EqZero(r)

\* a Runner.run that goes on to the next step whatever rc is
StopsRun_Never(r) == FALSE

\* handlers.py 78: "if rc: return rc"
StopsRun(r) == Truthy(r)

\* handlers.py 77-79: my.kill(success = rc == 0); a true rc is returned
Kill ==
    /\ UNCHANGED <<parsevars, prevars, pipevars>>
    /\ pc = "kill"
    /\ steplog' = Append(steplog,
           [hook |-> "kill", kind |-> "call", val |-> KillSuccess(rc)])
    /\ nkills' = [nkills EXCEPT ![count] = @ + 1]
    /\ IF StopsRun(rc)
       THEN /\ pc' = "returned"
            /\ results' = Append(results, rc)
       ELSE /\ pc' = "for_myclass"
            /\ UNCHANGED results
    /\ UNCHANGED <<parse_data, el_idx, runners, exit_status,
                   execution_order, count, hook, rc, exc, instantiated,
                   ncalls, nonzero>>

\* ------------------------------------------------------------ molecule.py
\* a driver that takes only a positive rc for a failure
BatchStops_PositiveOnly(r) == r.type = "int" /\ r.val > 0

\* what the driver does with the value rc of my.run() (molecule.py 49-50)
BatchStops(r) == NeZero(r)

\* molecule.py 40 and 46-50: run returned; Runner.kill() (handlers.py
\* 30-31, returns 0 and does nothing); a non-zero rc exits with rc
AfterRun ==
    /\ UNCHANGED <<parsevars, prevars, pipevars>>
    /\ pc = "returned"
    /\ IF BatchStops(results[Len(results)])
       THEN /\ pc' = "exit"
            /\ exit_status' = results[Len(results)]
            /\ UNCHANGED el_idx
       ELSE /\ pc' = "for_el"
            /\ el_idx' = el_idx + 1
            /\ UNCHANGED exit_status
    /\ UNCHANGED <<parse_data, runners, results>>
    /\ RunnerUnchanged

\* a driver that goes on with the next spec file after an interrupt
Interrupted_GoesOn ==
    /\ UNCHANGED <<parsevars, prevars, pipevars>>
    /\ pc = "raised"
    /\ exc = "KeyboardInterrupt"
    /\ pc' = "for_el"
    /\ el_idx' = el_idx + 1
    /\ UNCHANGED <<parse_data, runners, results, exit_status>>
    /\ RunnerUnchanged

\* molecule.py 41-45: KeyboardInterrupt out of run: Runner.kill(), exit 1
Interrupted ==
    /\ UNCHANGED <<parsevars, prevars, pipevars>>
    /\ pc = "raised"
    /\ exc = "KeyboardInterrupt"
    /\ pc' = "exit"
    /\ exit_status' = PyInt(1)
    /\ UNCHANGED <<parse_data, el_idx, runners, results>>
    /\ RunnerUnchanged

\* molecule.py 39-41: any other exception is not caught and ends the
\* process with a traceback; the interpreter's exit status is then 1
Uncaught ==
    /\ UNCHANGED <<parsevars, prevars, pipevars>>
    /\ pc = "raised"
    /\ exc # "KeyboardInterrupt"
    /\ pc' = "traceback"
    /\ exit_status' = PyInt(1)
    /\ UNCHANGED <<parse_data, el_idx, runners, results>>
    /\ RunnerUnchanged

Next ==
    \/ Main
    \/ NewRunner
    \/ Instantiate
    \/ HookReturns
    \/ HookRaises
    \/ ExceptKill
    \/ Kill
    \/ AfterRun
    \/ Interrupted
    \/ Uncaught

Spec == Init /\ [][Next]_vars

\* ----------------------------------------------- settings.py SpecParser
RunnerIdle ==
    /\ parse_data = None
    /\ pc = "idle"
    /\ el_idx = 0
    /\ runners = <<>>
    /\ results = <<>>
    /\ exit_status = NoStatus
    /\ execution_order = <<>>
    /\ count = 0
    /\ hook = 1
    /\ rc = PyInt(0)
    /\ exc = NoExc
    /\ instantiated = <<>>
    /\ ncalls = <<>>
    /\ nkills = <<>>
    /\ nonzero = <<>>
    /\ steplog = <<>>

\* the state before SpecParser(filepath): the preprocessor will return
\* some lines for the file, or raise PreprocessorError
ParseInit ==
    /\ RunnerIdle
    /\ PreIdle
    /\ PipeIdle
    /\ content \in {[type |-> "PreprocessorError", lines |-> <<>>]} \cup
          {[type |-> "list", lines |-> l] : l \in SeqsUpTo(LinePool, MaxLines)}
    /\ ppc = "new"
    /\ plugin = NoPlugin
    /\ data = <<>>
    /\ line_idx = 0
    /\ mydict = EmptyDict
    /\ old_key = None
    /\ callbacks = <<>>
    /\ error = NoError
    /\ config = NoConfig
    /\ preprocessed = 0

\* settings.py 302-303: the lines _generic_parser keeps, and what it
\* makes of a line it keeps
GenericKeeps(x) == ~StartsWith(x, <<"#">>) /\ Strip(x) # <<>>
GenericLine(x) == Strip(RSplitHead(Strip(x), "#"))

\* settings.py 298-306
RECURSIVE _generic_parser(_)
_generic_parser(lines) ==
    IF lines = <<>> THEN <<>>
    ELSE IF GenericKeeps(Head(lines))
         THEN <<GenericLine(Head(lines))>> \o _generic_parser(Tail(lines))
         ELSE _generic_parser(Tail(lines))

\* settings.py 243-249: <<key, value>>, both None without a ":"
parse_line_statement(line_stmt) ==
    LET i == Find(line_stmt, ":") IN
    IF i = 0 THEN <<None, None>>
    ELSE <<PyStr(Strip(SubSeq(line_stmt, 1, i - 1))),
           PyStr(Strip(SubSeq(line_stmt, i + 1, Len(line_stmt))))>>

\* a scan that keeps looking and returns the value of the last statement
RECURSIVE parse_execution_strategy_Last(_)
parse_execution_strategy_Last(lines) ==
    IF lines = <<>> THEN None
    ELSE LET line == lines[Len(lines)]
             st == parse_line_statement(line)
         IN IF /\ StartsWith(line, EXECUTION_STRATEGY_KEY)
               /\ st[1].type # "NoneType"
               /\ st[1].val = EXECUTION_STRATEGY_KEY
            THEN st[2]
            ELSE parse_execution_strategy_Last(SubSeq(lines, 1, Len(lines) - 1))

\* settings.py 229-241: the value of the first line that starts with
\* execution_strategy and whose key is execution_strategy; None if none
RECURSIVE parse_execution_strategy(_)
parse_execution_strategy(lines) ==
    IF lines = <<>> THEN None
    ELSE LET line == Head(lines)
             st == parse_line_statement(line)
         IN IF /\ StartsWith(line, EXECUTION_STRATEGY_KEY)
               /\ st[1].type # "NoneType"
               /\ st[1].val = EXECUTION_STRATEGY_KEY
            THEN st[2]
            ELSE parse_execution_strategy(Tail(lines))

\* dict.get(key) on a dict with string keys: None when absent
DictGet(d, key) ==
    IF key.type = "str" /\ key.val \in DOMAIN d THEN d[key.val] ELSE None

\* settings.py 210-227: SpecParser(filepath)
Construct ==
    /\ ppc = "new"
    /\ IF content.type = "PreprocessorError"
       THEN /\ error' = [type |-> "PreprocessorError"]
            /\ ppc' = "init_raised"
            /\ UNCHANGED plugin
       ELSE LET execution_strategy ==
                    parse_execution_strategy(_generic_parser(content.lines))
            IN IF DictGet(spec_plugins, execution_strategy).type = "NoneType"
               THEN /\ error' = [type |-> "SpecFileError",
                                 filepath |-> filepath,
                                 strategy |-> execution_strategy]
                    /\ ppc' = "init_raised"
                    /\ UNCHANGED plugin
               ELSE /\ plugin' = execution_strategy.val
                    /\ ppc' = "constructed"
                    /\ UNCHANGED error
    /\ preprocessed' = preprocessed + 1
    /\ UNCHANGED <<content, data, line_idx, mydict, old_key, callbacks, config>>
    /\ UNCHANGED <<runvars, prevars, pipevars>>

\* settings.py 251-256: parse() starts: data = self._generic_parser()
ParseStart ==
    /\ ppc = "constructed"
    /\ data' = _generic_parser(content.lines)
    /\ line_idx' = 1
    /\ mydict' = EmptyDict
    /\ old_key' = None
    /\ ppc' = "for_line"
    /\ preprocessed' = preprocessed + 1
    /\ UNCHANGED <<content, plugin, callbacks, error, config>>
    /\ UNCHANGED <<runvars, prevars, pipevars>>

\* a merge with the test of "key in mydict" inverted
Accumulate_Inverted(d, key, value) ==
    IF key \notin DOMAIN d THEN d
    ELSE [d EXCEPT ![key] = value]

\* a merge that puts the later value in front of the earlier one
Accumulate_Reversed(d, key, value) ==
    IF key \in DOMAIN d
    THEN IF value.type = "str"
         THEN [d EXCEPT ![key] = PyStr(value.val \o <<" ">> \o @.val)]
         ELSE IF value.type = "list"
              THEN [d EXCEPT ![key] = [type |-> "list", val |-> value.val \o @.val]]
              ELSE d
    ELSE [k \in DOMAIN d \cup {key} |-> IF k = key THEN value ELSE d[k]]

\* a merge in which a later value of another type replaces the earlier
Accumulate_Replace(d, key, value) ==
    IF key \in DOMAIN d
    THEN IF value.type = "str"
         THEN [d EXCEPT ![key] = PyStr(@.val \o <<" ">> \o value.val)]
         ELSE IF value.type = "list"
              THEN [d EXCEPT ![key] = [type |-> "list", val |-> @.val \o value.val]]
              ELSE [d EXCEPT ![key] = value]
    ELSE [k \in DOMAIN d \cup {key} |-> IF k = key THEN value ELSE d[k]]

\* settings.py 276-284: an accepted value is merged into mydict
Accumulate(d, key, value) ==
    IF key \in DOMAIN d
    THEN IF value.type = "str"
         THEN [d EXCEPT ![key] = PyStr(@.val \o <<" ">> \o value.val)]
         ELSE IF value.type = "list"
              THEN [d EXCEPT ![key] = [type |-> "list", val |-> @.val \o value.val]]
              ELSE d
    ELSE [k \in DOMAIN d \cup {key} |-> IF k = key THEN value ELSE d[k]]

\* a turn of the loop that knows no continuation lines
ParseLine_NoContinuation ==
    /\ ppc = "for_line"
    /\ line_idx <= Len(data)
    /\ LET line == data[line_idx]
           st == parse_line_statement(line)
           v_key == st[1]
           v_value == st[2]
           matches == DictGet(parameters, v_key).type # "NoneType"
           key == IF matches THEN v_key ELSE None
           value == IF matches THEN v_value ELSE None
           check_dict == DictGet(parameters, key)
           parsed == ApplyParser(check_dict.parser, value)
       IN /\ old_key' = IF matches THEN key ELSE old_key
          /\ IF check_dict.type # "dict"
             THEN UNCHANGED <<mydict, callbacks>>
             ELSE /\ callbacks' = callbacks \o
                       << [fn |-> "parser", key |-> key.val, arg |-> value],
                          [fn |-> "verifier", key |-> key.val, arg |-> parsed] >>
                  /\ mydict' = IF ApplyVerifier(check_dict.verifier, parsed)
                               THEN Accumulate(mydict, key.val, parsed)
                               ELSE mydict
    /\ line_idx' = line_idx + 1
    /\ UNCHANGED <<content, ppc, plugin, data, error, config, preprocessed>>
    /\ UNCHANGED <<runvars, prevars, pipevars>>

\* settings.py 256-284: one turn of the loop over data
ParseLine ==
    /\ ppc = "for_line"
    /\ line_idx <= Len(data)
    /\ LET line == data[line_idx]
           st == parse_line_statement(line)
           v_key == st[1]
           v_value == st[2]
           matches == DictGet(parameters, v_key).type # "NoneType"
           continues == ~matches /\ old_key.type = "str"
           key == IF matches THEN v_key ELSE IF continues THEN old_key ELSE None
           value == IF matches THEN v_value
                    ELSE IF continues THEN PyStr(Strip(line)) ELSE None
           check_dict == DictGet(parameters, key)
           parsed == ApplyParser(check_dict.parser, value)
       IN /\ old_key' = IF matches THEN key ELSE old_key
          /\ IF (continues /\ value.val = <<>>) \/ check_dict.type # "dict"
             THEN UNCHANGED <<mydict, callbacks>>
             ELSE /\ callbacks' = callbacks \o
                       << [fn |-> "parser", key |-> key.val, arg |-> value],
                          [fn |-> "verifier", key |-> key.val, arg |-> parsed] >>
                  /\ mydict' = IF ApplyVerifier(check_dict.verifier, parsed)
                               THEN Accumulate(mydict, key.val, parsed)
                               ELSE mydict
    /\ line_idx' = line_idx + 1
    /\ UNCHANGED <<content, ppc, plugin, data, error, config, preprocessed>>
    /\ UNCHANGED <<runvars, prevars, pipevars>>

\* a validation that looks at the first vital parameter only
MissingVital_FirstOnly(vital, d) ==
    IF vital # <<>> /\ vital[1] \notin DOMAIN d THEN 1 ELSE 0

\* settings.py 289-291: index of the first vital parameter that is not
\* in the mapping, 0 if all are
MissingVital(vital, d) ==
    IF \E i \in 1..Len(vital) : vital[i] \notin DOMAIN d
    THEN CHOOSE i \in 1..Len(vital) :
            /\ vital[i] \notin DOMAIN d
            /\ \A j \in 1..(i - 1) : vital[j] \in DOMAIN d
    ELSE 0

\* settings.py 285-296: the loop is over: the plugin is stored under
\* '__plugin__', validate_parse raises or parse returns a copy of mydict
ParseFinish ==
    /\ ppc = "for_line"
    /\ line_idx > Len(data)
    /\ LET d == [k \in DOMAIN mydict \cup {PLUGIN_KEY} |->
                   IF k = PLUGIN_KEY THEN [type |-> "plugin", val |-> plugin]
                   ELSE mydict[k]]
           m == MissingVital(vital_parameters, d)
       IN /\ mydict' = d
          /\ IF m # 0
             THEN /\ error' = [type |-> "SpecFileError",
                               filepath |-> filepath,
                               param |-> vital_parameters[m]]
                  /\ ppc' = "parse_raised"
                  /\ UNCHANGED config
             ELSE /\ config' = d
                  /\ ppc' = "returned"
                  /\ UNCHANGED error
    /\ UNCHANGED <<content, plugin, data, line_idx, old_key, callbacks,
                   preprocessed>>
    /\ UNCHANGED <<runvars, prevars, pipevars>>

ParseNext ==
    \/ Construct
    \/ ParseStart
    \/ ParseLine
    \/ ParseFinish

ParseSpec == ParseInit /\ [][ParseNext]_vars

\* ------------------------------------------ settings.py SpecPreprocessor
MaxPreLines == 2
MaxAdds == 2

\* utils.py 109: os.read(read, 1024)
READ_MAX == 1024

\* settings.py 80
PREFIX == <<"%">>

\* s.split(c, 1)
SplitOnce(s, c) ==
    IF Find(s, c) = 0 THEN <<s>>
    ELSE <<SubSeq(s, 1, Find(s, c) - 1), SubSeq(s, Find(s, c) + 1, Len(s))>>

\* "".join(ss)
RECURSIVE Concat(_)
Concat(ss) == IF ss = <<>> THEN <<>> ELSE Head(ss) \o Concat(Tail(ss))

\* sep.join(ss)
RECURSIVE Join(_, _)
Join(ss, sep) ==
    IF ss = <<>> THEN <<>>
    ELSE IF Len(ss) = 1 THEN ss[1]
    ELSE ss[1] \o sep \o Join(Tail(ss), sep)

\* spec_f.readlines(): the lines of a text, each with its line end
RECURSIVE readlines(_)
readlines(text) ==
    IF text = <<>> THEN <<>>
    ELSE IF Find(text, "\n") = 0 THEN <<text>>
    ELSE <<SubSeq(text, 1, Find(text, "\n"))>> \o
         readlines(SubSeq(text, Find(text, "\n") + 1, Len(text)))

\* os.path.dirname(p)
RECURSIVE RStripSlash(_)
RStripSlash(s) ==
    IF s # <<>> /\ s[Len(s)] = "/" THEN RStripSlash(SubSeq(s, 1, Len(s) - 1))
    ELSE s

dirname(p) ==
    LET head == SubSeq(p, 1, RFind(p, "/"))
    IN IF \E k \in 1..Len(head) : head[k] # "/" THEN RStripSlash(head)
       ELSE head

\* os.path.join(a, b)
join(a, b) ==
    IF StartsWith(b, <<"/">>) THEN b
    ELSE IF a = <<>> \/ a[Len(a)] = "/" THEN a \o b
    ELSE a \o <<"/">> \o b

\* the spec file given to SpecPreprocessor(spec_path), and the other
\* files of the modelled file system
_spec_path == <<"d", "/", "a">>
PathB == <<"d", "/", "b">>
PathC == <<"d", "/", "c">>
PathSB == <<"d", "/", "s", "/", "b">>
PathSC == <<"d", "/", "s", "/", "c">>
TextB == <<"b", "1", "\n", "%", "i", "m", "p", "o", "r", "t", " ", "c", "\n", "%", "u", " ", "z", "\n">>
TextC == <<"c", "1", "\n", "%", "e", "n", "v", " ", "$", "{", "V", "}", "\n">>
TextSB == <<"%", "i", "m", "p", "o", "r", "t", " ", "c", "\n">>
TextSC == <<"c", "2", "\n">>

\* lines the top-level spec file is made of
PrePool ==
    { <<"x", "\n">>,
      <<"%", "i", "m", "p", "o", "r", "t", " ", "b", "\n">>,
      <<"%", "i", "m", "p", "o", "r", "t", " ", "s", "/", "b", "\n">>,
      <<"%", "i", "m", "p", "o", "r", "t", " ", "/", "d", "/", "s", "/", "c", "\n">>,
      <<"%", "e", "n", "v", " ", "t", " ", "$", "{", "V", "}", "\n">>,
      <<"%", "e", "n", "v", " ", "$", "{", "U", "}", "\n">>,
      <<"%", "e", "n", "v", " ", "$", "(", "\n">>,
      <<"%", "e", "n", "v", " ", "\"", "t", "\n">>,
      <<"%", "e", "n", "v", " ", "$", "{", "B", "}", "\n">>,
      <<"%", "f", "o", "o", " ", "x", "\n">>,
      <<"%", "u", " ", "y", "\n">>,
      <<" ", "%", "e", "n", "v", " ", "t", "\n">>,
      <<" ", "y", "\n">> }

Files(top, hasC) ==
    (_spec_path :> Concat(top)) @@ (PathB :> TextB) @@ (PathSB :> TextSB) @@
    (PathSC :> TextSC) @@ (IF hasC THEN PathC :> TextC ELSE EmptyDict)

\* byte values of the characters that shell output is made of
CodeTable == << <<"t", 116>>, <<"v", 118>>, <<"x", 120>>, <<"y", 121>> >>
Ord(c) == CodeTable[CHOOSE i \in 1..Len(CodeTable) : CodeTable[i][1] = c][2]
Chr(n) == CodeTable[CHOOSE i \in 1..Len(CodeTable) : CodeTable[i][2] = n][1]
Encode(s) == [i \in 1..Len(s) |-> Ord(s[i])]

\* utils.py 100-103: the shell runs  printf '%s' "<argument>" : its exit
\* status and what it writes to the pipe.  In the shell's environment V
\* is "v", U is unset and B holds a byte that is no UTF-8 text; "$(" is
\* a syntax error.
Shell(argument) ==
    CASE argument = <<"$", "{", "V", "}">> -> [exit |-> 0, out |-> Encode(<<"v">>)]
      [] argument = <<"$", "{", "U", "}">> -> [exit |-> 0, out |-> <<>>]
      [] argument = <<"$", "{", "B", "}">> -> [exit |-> 0, out |-> <<255>>]
      [] argument = <<"$", "(">> -> [exit |-> 2, out |-> <<>>]
      [] OTHER -> [exit |-> 0, out |-> Encode(argument)]

\* utils.py 83-128: reading the empty pipe fails with EAGAIN
eval_shell_argument(argument) ==
    LET sh == Shell(argument)
    IN IF sh.exit # 0 THEN [type |-> "AttributeError", val |-> <<>>]
       ELSE IF sh.out = <<>> THEN [type |-> "AttributeError", val |-> <<>>]
       ELSE [type |-> "bytes",
             val |-> SubSeq(sh.out, 1,
                            IF Len(sh.out) < READ_MAX THEN Len(sh.out)
                            ELSE READ_MAX)]

\* bytes.decode: the outputs modelled hold ASCII bytes or the byte 255
Decodable(b) == \A i \in 1..Len(b) : b[i] <= 127
decode(b) == [i \in 1..Len(b) |-> Chr(b[i])]

\* shlex.split(s): tokens separated by whitespace, quotes group and are
\* removed; an unclosed quote is a ValueError.  quote is "" outside quotes.
RECURSIVE Lex(_, _, _, _, _)
Lex(s, quote, cur, has, toks) ==
    IF s = <<>>
    THEN IF quote # "" THEN [type |-> "ValueError", toks |-> <<>>]
         ELSE [type |-> "ok", toks |-> IF has THEN Append(toks, cur) ELSE toks]
    ELSE IF quote # ""
    THEN IF s[1] = quote THEN Lex(Tail(s), "", cur, TRUE, toks)
         ELSE Lex(Tail(s), quote, Append(cur, s[1]), TRUE, toks)
    ELSE IF s[1] \in {"\"", "'"} THEN Lex(Tail(s), s[1], cur, TRUE, toks)
    ELSE IF s[1] \in Whitespace
    THEN Lex(Tail(s), "", <<>>, FALSE, IF has THEN Append(toks, cur) ELSE toks)
    ELSE Lex(Tail(s), "", Append(cur, s[1]), TRUE, toks)

shlex_split(s) == Lex(s, "", <<>>, FALSE, <<>>)

\* outcome of an expansion: the text, or the exception raised, with the
\* imports resolved and the shell evaluations made on the way
Ok(text) == [type |-> "ok", text |-> text, imports |-> <<>>, shells |-> <<>>]
Raise(t) == [type |-> t, text |-> <<>>, imports |-> <<>>, shells |-> <<>>]

\* r1 and then, if r1 did not raise, r2
Then(r1, r2) ==
    IF r1.type # "ok" THEN r1
    ELSE [type |-> r2.type,
          text |-> IF r2.type = "ok" THEN r1.text \o r2.text ELSE <<>>,
          imports |-> r1.imports \o r2.imports,
          shells |-> r1.shells \o r2.shells]

WithImport(ev, r) == [r EXCEPT !.imports = <<ev>> \o @]
WithShells(args, r) == [r EXCEPT !.shells = args \o @]

\* settings.py 173-181: the arguments evaluated until one fails
RECURSIVE Evaluated(_)
Evaluated(args) ==
    IF args = <<>> THEN <<>>
    ELSE IF eval_shell_argument(Head(args)).type # "bytes" THEN <<Head(args)>>
    ELSE <<Head(args)>> \o Evaluated(Tail(args))

\* settings.py 126-127: the built-in expander of a line, "" if none
BuiltinExpander_AnyPrefixed(line) ==
    IF StartsWith(LStrip(line), PREFIX) THEN "env" ELSE ""

BuiltinExpander(line) ==
    LET word == SplitOnce(LStrip(line), " ")[1]
    IN IF word = PREFIX \o <<"i", "m", "p", "o", "r", "t">> THEN "import"
       ELSE IF word = PREFIX \o <<"e", "n", "v">> THEN "env"
       ELSE ""

RECURSIVE _builtin_recursive_expand(_, _, _)
RECURSIVE _import_expander(_, _, _)
RECURSIVE _env_expander(_, _, _)
RECURSIVE ExpandLines(_, _, _)

\* settings.py 153-157: the lines of an imported file, each expanded
ExpandLines_Flat(files, src, lines) == Ok(Concat(lines))

ExpandLines(files, src, lines) ==
    IF lines = <<>> THEN Ok(<<>>)
    ELSE Then(_builtin_recursive_expand(files, src, Head(lines)),
              ExpandLines(files, src, Tail(lines)))

\* settings.py 137-159; src is the file that holds the line
_import_expander(files, src, line) ==
    IF Len(SplitOnce(line, " ")) < 2 THEN Raise("IndexError")
    ELSE LET rest_line == Strip(SplitOnce(line, " ")[2])
             path == IF StartsWith(rest_line, <<"/">>) THEN rest_line
                     ELSE join(dirname(_spec_path), rest_line)
             ev == [src |-> src, rest |-> rest_line, path |-> path]
         IN IF rest_line = <<>> THEN Ok(line)
            ELSE IF path \notin DOMAIN files
            THEN WithImport(ev, Raise("PreprocessorError"))
            ELSE WithImport(ev, ExpandLines(files, path,
                                            readlines(files[path])))

\* settings.py 161-184
_env_expander(files, src, line) ==
    IF shlex_split(line).type # "ok" THEN Raise("ValueError")
    ELSE LET split_line == Tail(shlex_split(line).toks)
             new_split_line ==
                 [i \in 1..Len(split_line) |->
                     eval_shell_argument(split_line[i])]
         IN IF split_line = <<>> THEN Ok(line)
            ELSE IF \E i \in 1..Len(split_line) :
                        new_split_line[i].type # "bytes"
            THEN WithShells(Evaluated(split_line), Raise("PreprocessorError"))
            ELSE IF \E i \in 1..Len(split_line) :
                        ~Decodable(new_split_line[i].val)
            THEN WithShells(split_line, Raise("UnicodeDecodeError"))
            ELSE WithShells(split_line,
                     _builtin_recursive_expand(files, src,
                         Join([i \in 1..Len(split_line) |->
                                  decode(new_split_line[i].val)], <<" ">>)
                         \o <<"\n">>))

\* settings.py 124-135
_builtin_recursive_expand(files, src, line) ==
    LET r == IF BuiltinExpander(line) = "import"
             THEN _import_expander(files, src, line)
             ELSE IF BuiltinExpander(line) = "env"
             THEN _env_expander(files, src, line)
             ELSE Ok(line)
    IN IF r.type = "RuntimeError"
       THEN [r EXCEPT !.type = "PreprocessorError"]
       ELSE r

\* the callables that callers register: what each returns for a line
Callback(cb, line) == IF cb = 1 THEN <<"%", "e", "n", "v", " ", "t", "\n">> ELSE <<"%", "u", " ", "w", "\n">>

\* settings.py 188-192: the first loop of parse(), one chunk of text for
\* each line of the spec file
RECURSIVE BuiltinPass(_, _)
BuiltinPass(files, lines) ==
    IF lines = <<>>
    THEN [type |-> "ok", chunks |-> <<>>, imports |-> <<>>, shells |-> <<>>]
    ELSE LET r == _builtin_recursive_expand(files, _spec_path, Head(lines))
             t == BuiltinPass(files, Tail(lines))
         IN IF r.type # "ok"
            THEN [type |-> r.type, chunks |-> <<>>, imports |-> r.imports,
                  shells |-> r.shells]
            ELSE [type |-> t.type,
                  chunks |-> IF t.type = "ok" THEN <<r.text>> \o t.chunks
                             ELSE <<>>,
                  imports |-> r.imports \o t.imports,
                  shells |-> r.shells \o t.shells]

\* settings.py 196-199: the expander of the second loop for a chunk
UserKey(exps, chunk) == SplitOnce(chunk, " ")[1]
Expanded(exps, chunk) == UserKey(exps, chunk) \in DOMAIN exps

\* settings.py 194-201
SecondPass(exps, chunks) ==
    [i \in 1..Len(chunks) |->
        IF Expanded(exps, chunks[i])
        THEN Callback(exps[UserKey(exps, chunks[i])], chunks[i])
        ELSE chunks[i]]

RECURSIVE UserCalls(_, _)
UserCalls(exps, chunks) ==
    IF chunks = <<>> THEN <<>>
    ELSE (IF Expanded(exps, Head(chunks))
          THEN <<[name |-> UserKey(exps, Head(chunks)), arg |-> Head(chunks)]>>
          ELSE <<>>) \o UserCalls(exps, Tail(chunks))

\* settings.py 203
FinalContent_Chunks(final_content) == final_content

FinalContent(final_content) == SplitAll(Concat(final_content), "\n")

\* settings.py 186-205, for the lines read from the spec file
ParseLines(files, exps, lines) ==
    LET b == BuiltinPass(files, lines)
    IN IF b.type # "ok"
       THEN [type |-> b.type, lines |-> <<>>, expanded |-> <<>>,
             calls |-> <<>>, imports |-> b.imports, shells |-> b.shells]
       ELSE [type |-> "ok",
             lines |-> FinalContent(SecondPass(exps, b.chunks)),
             expanded |-> b.chunks,
             calls |-> UserCalls(exps, b.chunks),
             imports |-> b.imports, shells |-> b.shells]

parse(files, exps) == ParseLines(files, exps, readlines(files[_spec_path]))

\* names that callers register
Statements == {<<"u">>, <<"%", "u">>}

PreInit ==
    /\ RunnerIdle
    /\ ParserIdle
    /\ PipeIdle
    /\ fs \in {Files(top, hasC) :
                 top \in SeqsUpTo(PrePool, MaxPreLines), hasC \in BOOLEAN}
    /\ expanders = EmptyDict
    /\ add_log = <<>>
    /\ pre_pc = "new"
    /\ pre_out = NoOut

\* settings.py 91-116: add_expander(statement, callback); the n-th call
\* registers the callable n
AddRaises(statement) == statement \in DOMAIN expanders

AddExpander(statement) ==
    /\ pre_pc = "new"
    /\ Len(add_log) < MaxAdds
    /\ LET cb == Len(add_log) + 1
       IN IF AddRaises(statement)
          THEN /\ add_log' = Append(add_log, [statement |-> statement,
                                  callback |-> cb, raised |-> TRUE])
               /\ UNCHANGED expanders
          ELSE /\ add_log' = Append(add_log, [statement |-> statement,
                                  callback |-> cb, raised |-> FALSE])
               /\ expanders' = ((PREFIX \o statement) :> cb) @@ expanders
    /\ UNCHANGED <<fs, pre_pc, pre_out>>
    /\ UNCHANGED <<runvars, parsevars, pipevars>>

\* settings.py 186-205: parse()
PreParse ==
    /\ pre_pc = "new"
    /\ pre_pc' = "parsed"
    /\ pre_out' = parse(fs, expanders)
    /\ UNCHANGED <<fs, expanders, add_log>>
    /\ UNCHANGED <<runvars, parsevars, pipevars>>

PreNext ==
    \/ \E statement \in Statements : AddExpander(statement)
    \/ PreParse

PreSpec == PreInit /\ [][PreNext]_vars

\* -------------------------------------------- utils.py eval_shell_argument
\* the shell writes its output to the pipe of utils.py 96 while
\* subprocess.call (99-103) waits for it to exit; the pipe is read (109)
\* after the call has returned
MaxOutput == 65538

\* bytes a pipe holds before a write to it blocks
PipeCapacity == 65536

Min(a, b) == IF a < b THEN a ELSE b

\* the shell's write blocks: output is left and the pipe is full
WriterBlocked == shell = "running" /\ sh_written < sh_output /\ pipe = PipeCapacity

PipeInit ==
    /\ RunnerIdle
    /\ ParserIdle
    /\ PreIdle
    /\ shell = "running"
    /\ sh_output \in 0..MaxOutput
    /\ sh_written = 0
    /\ pipe = 0
    /\ exit_st = 0
    /\ ev_pc = "call"
    /\ evaluated = 0

\* the shell writes what the pipe takes of the output that is left
ShellWrite ==
    /\ shell = "running"
    /\ sh_written < sh_output
    /\ pipe < PipeCapacity
    /\ LET n == Min(sh_output - sh_written, PipeCapacity - pipe)
       IN /\ sh_written' = sh_written + n
          /\ pipe' = pipe + n
    /\ UNCHANGED <<shell, sh_output, exit_st, ev_pc, evaluated>>
    /\ UNCHANGED <<runvars, parsevars, prevars>>

\* the shell has written all its output and exits, with some status
ShellExit ==
    /\ shell = "running"
    /\ sh_written = sh_output
    /\ shell' = "exited"
    /\ exit_st' \in {0, 2}
    /\ UNCHANGED <<sh_output, sh_written, pipe, ev_pc, evaluated>>
    /\ UNCHANGED <<runvars, parsevars, prevars>>

\* utils.py 99-107: subprocess.call returns when the shell has exited; a
\* non-zero exit status raises AttributeError
CallReturns ==
    /\ ev_pc = "call"
    /\ shell = "exited"
    /\ ev_pc' = IF exit_st # 0 THEN "AttributeError" ELSE "read"
    /\ UNCHANGED <<shell, sh_output, sh_written, pipe, exit_st, evaluated>>
    /\ UNCHANGED <<runvars, parsevars, prevars>>

\* utils.py 108-117: os.read(read, 1024) on the non-blocking read end: the
\* empty pipe gives EAGAIN, raised as AttributeError
Read ==
    /\ ev_pc = "read"
    /\ IF pipe = 0
       THEN /\ ev_pc' = "AttributeError"
            /\ UNCHANGED <<pipe, evaluated>>
       ELSE /\ evaluated' = Min(pipe, READ_MAX)
            /\ pipe' = pipe - Min(pipe, READ_MAX)
            /\ ev_pc' = "returned"
    /\ UNCHANGED <<shell, sh_output, sh_written, exit_st>>
    /\ UNCHANGED <<runvars, parsevars, prevars>>

PipeNext ==
    \/ ShellWrite
    \/ ShellExit
    \/ CallReturns
    \/ Read

PipeSpec == PipeInit /\ [][PipeNext]_vars

ParseTypeOK ==
    /\ ppc \in {"new", "constructed", "for_line", "returned", "init_raised",
                "parse_raised"}
    /\ plugin \in DOMAIN spec_plugins \cup {NoPlugin}
    /\ old_key.type \in {"NoneType", "str"}

TypeOK ==
    /\ pc \in {"start", "for_el", "for_myclass", "hooks", "kill", "except",
               "raised", "returned", "exit", "traceback"}
    /\ Len(ncalls) = Len(instantiated)
    /\ Len(nkills) = Len(instantiated)
\* ====================================================== claims on the runner
Last(s) == s[Len(s)]
IsPrefix(s, t) == Len(s) <= Len(t) /\ SubSeq(t, 1, Len(s)) = s

\* some hook of this run returned a non-zero status
ReturnedNonZero == nonzero # <<>>

\* the entries of steplog that are hook calls (not kill)
HookEntries == {k \in 1..Len(steplog) : steplog[k].hook # "kill"}
KillEntries == {k \in 1..Len(steplog) : steplog[k].hook = "kill"}

\* C1: once a hook of a step has returned a non-zero status, Runner.run
\* instantiates no further step and calls no further hook: from then on
\* it only tears the step down and returns.
C1_HaltsOnFirstNonZero ==
    [][ReturnedNonZero =>
          /\ instantiated' = instantiated
          /\ ncalls' = ncalls
          /\ pc' \notin {"for_myclass", "hooks", "except", "raised"}]_vars

C1_Witness ==
    /\ pc = "returned"
    /\ ReturnedNonZero
    /\ count < Len(execution_order)
    /\ Len(instantiated) = count

\* C2: every instantiated step has its kill called exactly once: not
\* before the last hook call of the step, and before the next step is
\* instantiated or Runner.run returns or raises.
C2_KillExactlyOnce ==
    /\ \A j \in 1..Len(instantiated) :
          nkills[j] = IF j = Len(instantiated) /\ pc \in {"hooks", "kill", "except"}
                      THEN 0 ELSE 1
    /\ \A k \in KillEntries : k = Len(steplog)
    /\ Cardinality(KillEntries) =
          IF instantiated = <<>> THEN 0 ELSE nkills[Len(instantiated)]

C2_Witness ==
    /\ Len(instantiated) = 2
    /\ pc = "raised"
    /\ nkills = <<1, 1>>

C4_ReturnsFirstNonZero ==
    pc = "returned" =>
        LET r == Last(results) IN
        /\ ReturnedNonZero => r = nonzero[1]
        /\ EqZero(r) <=> ~ReturnedNonZero
        /\ EqZero(r) =>
              /\ instantiated = execution_order
              /\ \A j \in 1..Len(instantiated) : ncalls[j] = Len(Hooks)

C4_Witness ==
    /\ pc = "returned"
    /\ Last(results) = PyInt(0)
    /\ Len(instantiated) = 2

\* C5: the hooks of a step are called in the order setup, pre_run, run,
\* post_run, each at most once; a hook is called only after every earlier
\* hook of the step has returned, none of them with a non-zero status; a
\* non-zero status is followed by nothing but kill.
C5_HookOrder ==
    /\ \A k \in HookEntries :
          /\ k <= Len(Hooks)
          /\ steplog[k].hook = Hooks[k]
          /\ \A m \in 1..(k - 1) :
                /\ steplog[m].kind = "return"
                /\ ~NonZeroStatus(steplog[m].val)
    /\ \A k \in 1..Len(steplog) :
          (steplog[k].kind = "return" /\ NonZeroStatus(steplog[k].val)) =>
              /\ pc \notin {"hooks", "except"}
              /\ \A m \in (k + 1)..Len(steplog) : steplog[m].hook = "kill"
    /\ instantiated # <<>> =>
          ncalls[Len(instantiated)] = Cardinality(HookEntries)

C5_Witness ==
    /\ Len(steplog) = 3
    /\ steplog[1] = [hook |-> "setup", kind |-> "return", val |-> PyInt(0)]
    /\ steplog[2].hook = "pre_run"
    /\ NonZeroStatus(steplog[2].val)
    /\ steplog[3].hook = "kill"

\* C6: when the hooks of a step all returned, kill is called with
\* success = TRUE if the value the last called hook returned is the
\* status 0, and with success = FALSE otherwise.
C6_KillSuccessFlag ==
    \A k \in KillEntries :
        (k > 1 /\ steplog[k - 1].kind = "return") =>
            steplog[k].val = (steplog[k - 1].val = PyInt(0))

C6_Witness ==
    /\ Len(steplog) = 5
    /\ steplog[4].kind = "return"
    /\ steplog[4].val = PyInt(0)
    /\ steplog[5] = [hook |-> "kill", kind |-> "call", val |-> TRUE]

\* C7: Runners are constructed for the spec files in the given order, one
\* after the other; the first run that returns a non-zero rc ends the
\* batch with exit status rc and no further Runner; exit status 0 only
\* for a non-empty list all of whose runs returned 0.
C7_BatchStopsAtFirstFailure ==
    /\ IsPrefix(runners, molecule_data_order)
    /\ Len(results) <= Len(runners)
    /\ Len(runners) <= Len(results) + 1
    /\ \A k \in 1..Len(results) :
          NeZero(results[k]) =>
              /\ k = Len(results)
              /\ Len(runners) = k
              /\ pc \in {"returned", "exit"}
              /\ pc = "exit" => exit_status = results[k]
    /\ (pc \in {"exit", "traceback"} /\ exit_status = PyInt(0)) =>
          /\ molecule_data_order # <<>>
          /\ runners = molecule_data_order
          /\ Len(results) = Len(molecule_data_order)
          /\ \A k \in 1..Len(results) : results[k] = PyInt(0)

C7_Witness ==
    /\ pc = "exit"
    /\ Len(molecule_data_order) = 2
    /\ Len(runners) = 1
    /\ results = <<PyInt(-1)>>
    /\ exit_status = PyInt(-1)

\* C8: a KeyboardInterrupt raised in a hook: the step's kill is called
\* with success = FALSE, no further hook, step or spec file is run, and
\* the process exits with status 1.
C8_InterruptExitsOne ==
    exc = "KeyboardInterrupt" =>
        /\ pc \in {"except", "raised", "exit"}
        /\ Len(instantiated) = count
        /\ Len(results) = Len(runners) - 1
        /\ pc # "except" =>
              /\ Last(steplog) = [hook |-> "kill", kind |-> "call", val |-> FALSE]
              /\ Cardinality(KillEntries) = 1
              /\ steplog[Len(steplog) - 1].kind = "raise"
        /\ pc = "exit" => exit_status = PyInt(1)

C8_Witness ==
    /\ exc = "KeyboardInterrupt"
    /\ pc = "exit"
    /\ count < Len(execution_order)
    /\ Len(runners) < Len(molecule_data_order)
\* ====================================================== claims on the parser
\* the keys for which some (key, payload) pair was accepted by the verifier
AcceptedKeys ==
    {callbacks[i].key : i \in {j \in 1..Len(callbacks) :
        /\ callbacks[j].fn = "verifier"
        /\ ApplyVerifier(parameters[callbacks[j].key].verifier, callbacks[j].arg)}}

VitalKeys == {vital_parameters[i] : i \in 1..Len(vital_parameters)}

\* C9: parse returns a configuration only if it holds every vital key of
\* the strategy; when the lines are done and some vital key has no accepted
\* occurrence, parse raises SpecFileError naming such a key and the file,
\* and returns nothing.
C9_VitalKeysOrError ==
    /\ ppc = "returned" =>
          /\ VitalKeys \subseteq DOMAIN config
          /\ VitalKeys \subseteq AcceptedKeys
          /\ error = NoError
    /\ ppc = "parse_raised" =>
          /\ error.type = "SpecFileError"
          /\ error.filepath = filepath
          /\ error.param \in VitalKeys \ AcceptedKeys
          /\ error.param \notin DOMAIN mydict
          /\ config = NoConfig
    /\ (ppc \in {"returned", "parse_raised"} /\ ~(VitalKeys \subseteq AcceptedKeys))
          => ppc = "parse_raised"

C9_Witness ==
    /\ ppc = "parse_raised"
    /\ plugin = <<"b">>
    /\ error.param = <<"n">>
    /\ <<"k">> \in DOMAIN mydict
    /\ \E i \in 1..Len(callbacks) : callbacks[i].key = <<"n">>

\* a generic line that is an execution_strategy statement, and its value
IsStrategyStatement(l) ==
    /\ Find(l, ":") # 0
    /\ Strip(SubSeq(l, 1, Find(l, ":") - 1)) = EXECUTION_STRATEGY_KEY
StatementValue(l) == Strip(SubSeq(l, Find(l, ":") + 1, Len(l)))
StrategyStatements == SelectSeq(_generic_parser(content.lines), IsStrategyStatement)

\* C10: with no execution_strategy statement among the generic lines, or
\* with a first one whose value is no registered plugin, SpecParser() raises
\* SpecFileError, no plugin is instantiated and no parser or verifier is
\* called; otherwise the plugin is the one the first statement names.
C10_StrategyFirstMatch ==
    (ppc # "new" /\ content.type = "list") =>
        IF \/ StrategyStatements = <<>>
           \/ StatementValue(StrategyStatements[1]) \notin DOMAIN spec_plugins
        THEN /\ ppc = "init_raised"
             /\ error.type = "SpecFileError"
             /\ error.filepath = filepath
             /\ plugin = NoPlugin
             /\ callbacks = <<>>
             /\ config = NoConfig
        ELSE /\ ppc # "init_raised"
             /\ plugin = StatementValue(StrategyStatements[1])

C10_Witness ==
    /\ ppc = "init_raised"
    /\ error.type = "SpecFileError"
    /\ Len(StrategyStatements) = 2
    /\ StatementValue(StrategyStatements[1]) = <<"c">>
    /\ StatementValue(StrategyStatements[2]) = <<"a">>
\* a line "key: value" without comment, its key and its value
PlainStatement(l) == Find(l, ":") # 0 /\ Find(l, "#") = 0
LineKey(l) == Strip(SubSeq(l, 1, Find(l, ":") - 1))
LineValue(l) == Strip(SubSeq(l, Find(l, ":") + 1, Len(l)))

\* the file is the line "execution_strategy: X", X registered, and one line
\* per vital key of X with a value the key's parser and verifier accept
RoundTripFile ==
    LET lines == content.lines
        strategy == {i \in 1..Len(lines) : LineKey(lines[i]) = EXECUTION_STRATEGY_KEY}
    IN /\ content.type = "list"
       /\ \A i \in 1..Len(lines) : PlainStatement(lines[i])
       /\ Cardinality(strategy) = 1
       /\ \A i \in strategy : LineValue(lines[i]) \in DOMAIN spec_plugins
       /\ \A i \in strategy :
             LET X == spec_plugins[LineValue(lines[i])]
                 vital == {X.vital_parameters[j] : j \in 1..Len(X.vital_parameters)}
                 rest == (1..Len(lines)) \ strategy
             IN /\ {LineKey(lines[j]) : j \in rest} = vital
                /\ Cardinality(rest) = Cardinality(vital)
                /\ \A j \in rest :
                      LET entry == X.parameters[LineKey(lines[j])]
                      IN ApplyVerifier(entry.verifier,
                            ApplyParser(entry.parser, PyStr(LineValue(lines[j]))))

\* the configuration the round trip promises
RoundTripResult ==
    /\ ppc = "returned"
    /\ DOMAIN config = VitalKeys \cup {PLUGIN_KEY}
    /\ \A i \in 1..Len(content.lines) :
          LET l == content.lines[i] IN
          LineKey(l) # EXECUTION_STRATEGY_KEY =>
              config[LineKey(l)] =
                  ApplyParser(parameters[LineKey(l)].parser, PyStr(LineValue(l)))

ParseEnded == ppc \in {"returned", "parse_raised", "init_raised"}

\* C11 as claimed: for such a file, in any line order, parse returns a
\* mapping whose keys are the vital keys and '__plugin__', each vital key
\* with its parser's result for the value on its line.
C11_RoundTripAnyOrder ==
    (ParseEnded /\ RoundTripFile) => RoundTripResult

\* C11 as amended: the same, for the files whose first line is the
\* execution_strategy line (the vital-key lines in any order after it).
C11_RoundTripStrategyFirst ==
    (ParseEnded /\ RoundTripFile
        /\ LineKey(content.lines[1]) = EXECUTION_STRATEGY_KEY) => RoundTripResult

C11_Witness ==
    /\ ppc = "returned"
    /\ RoundTripFile
    /\ plugin = <<"b">>
    /\ LineKey(content.lines[1]) = EXECUTION_STRATEGY_KEY
    /\ LineKey(content.lines[2]) = <<"n">>
    /\ LineKey(content.lines[3]) = <<"k">>

\* the values accepted for key K so far, in the order of their lines
AcceptedArgs(K) ==
    LET Accepted(c) ==
            /\ c.fn = "verifier"
            /\ c.key = K
            /\ ApplyVerifier(parameters[K].verifier, c.arg)
        sel == SelectSeq(callbacks, Accepted)
    IN [i \in 1..Len(sel) |-> sel[i].arg]

\* v1 + ' ' + v2 + ... for strings, the concatenation for lists
RECURSIVE InOrder(_)
InOrder(args) ==
    IF Len(args) = 1 THEN args[1]
    ELSE LET front == InOrder(SubSeq(args, 1, Len(args) - 1))
             last == args[Len(args)]
         IN IF last.type = "str"
            THEN PyStr(front.val \o <<" ">> \o last.val)
            ELSE [type |-> "list", val |-> front.val \o last.val]

\* C12: the value stored for a string or list key is made of all its
\* accepted occurrences, in file order: joined by single spaces for
\* strings, concatenated for lists; none lost, none twice.
C12_AccumulatesInOrder ==
    ppc \in {"for_line", "returned", "parse_raised"} =>
        \A K \in DOMAIN parameters :
            (AcceptedArgs(K) # <<>> /\ AcceptedArgs(K)[1].type \in {"str", "list"}) =>
                /\ K \in DOMAIN mydict
                /\ mydict[K] = InOrder(AcceptedArgs(K))

C12_Witness ==
    /\ ppc = "returned"
    /\ Len(AcceptedArgs(<<"k">>)) = 2
    /\ config[<<"k">>].val = <<"v", " ", "u">>
\* line l of data is a statement whose key is a schema key
IsSchemaLine(l) ==
    /\ parse_line_statement(l)[1].type = "str"
    /\ parse_line_statement(l)[1].val \in DOMAIN parameters

\* the schema key seen last before line i of data, None if none was seen
CurrentKey(i) ==
    LET seen == {j \in 1..(i - 1) : IsSchemaLine(data[j])}
    IN IF seen = {} THEN None
       ELSE parse_line_statement(
                data[CHOOSE j \in seen : \A h \in seen : h <= j])[1]

\* the accumulation rule
Merged(d, K, v) ==
    IF K \notin DOMAIN d THEN (K :> v) @@ d
    ELSE IF v.type = "str"
    THEN (K :> PyStr(d[K].val \o <<" ">> \o v.val)) @@ d
    ELSE IF v.type = "list"
    THEN (K :> [type |-> "list", val |-> d[K].val \o v.val]) @@ d
    ELSE d

\* one turn of the loop of parse() over a non-blank line whose key part
\* is no schema key
ContinuationTurn ==
    /\ ppc = "for_line"
    /\ line_idx <= Len(data)
    /\ line_idx' = line_idx + 1
    /\ data[line_idx] # <<>>
    /\ ~IsSchemaLine(data[line_idx])

\* C21: a non-blank line whose key part is no schema key is, whole, a
\* payload of the schema key K seen last before it: it is given to K's
\* parser, the result to K's verifier, and an accepted result is merged
\* into K's value by the accumulation rule.  Before any schema-key line,
\* such a line leaves the mapping unchanged and raises no error.
C21_ContinuationOfCurrentKey ==
    [][ContinuationTurn =>
          IF CurrentKey(line_idx).type = "str"
          THEN LET K == CurrentKey(line_idx).val
                   payload == PyStr(data[line_idx])
                   parsed == ApplyParser(parameters[K].parser, payload)
               IN /\ callbacks' = callbacks \o
                        << [fn |-> "parser", key |-> K, arg |-> payload],
                           [fn |-> "verifier", key |-> K, arg |-> parsed] >>
                  /\ mydict' = IF ApplyVerifier(parameters[K].verifier, parsed)
                               THEN Merged(mydict, K, parsed)
                               ELSE mydict
          ELSE /\ mydict' = mydict
               /\ callbacks' = callbacks
               /\ error' = error
               /\ ppc' = "for_line"]_vars

C21_Witness ==
    /\ ppc = "returned"
    /\ Len(data) = 3
    /\ data[2] = <<"k", ":", " ", "v">>
    /\ data[3] = EXECUTION_STRATEGY_KEY \o <<"_", "x", ":", " ", "b">>
    /\ config[<<"k">>] = PyStr(<<"v", " ">> \o data[3])

\* the parser of the schema returned its "invalid" value
IsSentinel(v) == v.type = "NoneType"

\* one turn of the loop of parse()
LoopTurn ==
    ppc = "for_line" /\ line_idx <= Len(data) /\ line_idx' = line_idx + 1

\* the calls that the turn added to the call log
NewCalls == SubSeq(callbacks', Len(callbacks) + 1, Len(callbacks'))

\* C22 as stated: for each (key, payload) pair met by parse(): if the key's parser
\* returns its invalid value, the verifier is not run on it and the
\* mapping is unchanged; if the verifier rejects the parser's value, the
\* mapping is unchanged; the mapping changes only with a value that its
\* verifier accepted.
C22_SentinelSkipsVerifier ==
    [][LoopTurn =>
          /\ \A n \in 1..Len(NewCalls) :
                 NewCalls[n].fn = "verifier" => ~IsSentinel(NewCalls[n].arg)
          /\ mydict' # mydict =>
                 \E n \in 1..Len(NewCalls) :
                     /\ NewCalls[n].fn = "verifier"
                     /\ ApplyVerifier(parameters[NewCalls[n].key].verifier,
                                      NewCalls[n].arg)]_vars

\* what the verifiers of the schema accept: a non-empty string for k, an
\* integer for n, a non-empty list for l
Accepts(K, v) ==
    CASE K = <<"k">> -> v.type = "str" /\ v.val # <<>>
      [] K = <<"n">> -> v.type = "int"
      [] K = <<"l">> -> v.type = "list" /\ v.val # <<>>
      [] OTHER -> FALSE

\* C22 amended: for each (key, payload) pair met by parse() the parser's
\* result, its invalid value included, is given to the key's verifier; the
\* mapping is unchanged when the verifier rejects it, and changes only
\* with a value that its verifier accepted.
C22_VerifierDecides ==
    [][LoopTurn =>
          /\ \/ NewCalls = <<>>
             \/ /\ Len(NewCalls) = 2
                /\ NewCalls[1].fn = "parser"
                /\ NewCalls[2].fn = "verifier"
                /\ NewCalls[2].key = NewCalls[1].key
                /\ NewCalls[2].arg =
                       ApplyParser(parameters[NewCalls[1].key].parser,
                                   NewCalls[1].arg)
          /\ mydict' # mydict =>
                 /\ Len(NewCalls) = 2
                 /\ Accepts(NewCalls[2].key, NewCalls[2].arg)]_vars

C22_Witness ==
    /\ ppc = "returned"
    /\ \E n \in 1..Len(callbacks) :
           /\ callbacks[n].fn = "verifier"
           /\ callbacks[n].key = <<"n">>
           /\ IsSentinel(callbacks[n].arg)
    /\ <<"n">> \notin DOMAIN config

\* C23: when a key that is already in the mapping occurs again with an
\* accepted value that is neither a string nor a list, the mapping is
\* left unchanged (the first value is kept) and no error is raised.
C23_RepeatedOtherTypeKept ==
    [][(/\ LoopTurn
        /\ Len(NewCalls) = 2
        /\ NewCalls[2].key \in DOMAIN mydict
        /\ Accepts(NewCalls[2].key, NewCalls[2].arg)
        /\ NewCalls[2].arg.type \notin {"str", "list"})
          => /\ mydict' = mydict
             /\ error' = error
             /\ ppc' = "for_line"]_vars

C23_Witness ==
    /\ ppc = "for_line"
    /\ line_idx = Len(data) + 1
    /\ <<"n">> \in DOMAIN mydict
    /\ mydict[<<"n">>] = PyInt(7)
    /\ callbacks # <<>>
    /\ callbacks[Len(callbacks)] =
           [fn |-> "verifier", key |-> <<"n">>, arg |-> PyInt(8)]

\* C24: while one spec file is processed, SpecParser(filepath) followed by
\* one call of parse(), the preprocessor is run on the spec source exactly
\* once: the file is opened, its imports are read and its env tokens are
\* evaluated once, for the strategy scan and the parse together.
C24_PreprocessedOnce ==
    ppc \in {"returned", "parse_raised"} => preprocessed = 1

\* the first "#" of l that no backslash precedes: its index, 0 if none
FirstUnescapedHash(l) ==
    LET hashes == {i \in 1..Len(l) : l[i] = "#" /\ (i = 1 \/ l[i - 1] # "\\")}
    IN IF hashes = {} THEN 0
       ELSE CHOOSE i \in hashes : \A j \in hashes : i <= j

\* a line without its comment
WithoutComment(l) ==
    IF FirstUnescapedHash(l) = 0 THEN Strip(l)
    ELSE Strip(SubSeq(l, 1, FirstUnescapedHash(l) - 1))

NotBlank(l) == l # <<>>

\* C18: the generic line set is the lines of the preprocessed text, each
\* cut at its first unescaped "#" and stripped, without the lines that are
\* blank or hold a comment only.
C18_CommentsAndBlanksStripped ==
    ppc \in {"for_line", "returned", "parse_raised"} =>
        data = SelectSeq([i \in 1..Len(content.lines) |->
                             WithoutComment(content.lines[i])], NotBlank)
\* ================================================ claims on the preprocessor
Parsed == pre_pc = "parsed"
TopLines == readlines(fs[_spec_path])

\* what parse() returned, as one text
OutText == Join(pre_out.lines, <<"\n">>)

\* parse() invoked no expander
NoExpanderInvoked ==
    pre_out.calls = <<>> /\ pre_out.imports = <<>> /\ pre_out.shells = <<>>

\* parse() returned the file's lines unchanged and in order, and returns
\* the same lines for its own output
ReturnedUnchanged ==
    /\ pre_out.type = "ok"
    /\ NoExpanderInvoked
    /\ OutText = fs[_spec_path]
    /\ ParseLines(fs, expanders, readlines(OutText)).lines = pre_out.lines

OutTextOf(lines) == Join(ParseLines(fs, expanders, lines).lines, <<"\n">>)
TypeOf(lines) == ParseLines(fs, expanders, lines).type

Before(i) == SubSeq(TopLines, 1, i - 1)
After(i) == SubSeq(TopLines, i + 1, Len(TopLines))

\* the expansion reaches line i of the spec file: no earlier line fails
Reaches(i) == TypeOf(Before(i)) = "ok"

\* file A's line that imports B (d/b), B's text with the expanded lines
\* of C (d/c) in place of B's import line
ImportB == <<"%", "i", "m", "p", "o", "r", "t", " ", "b", "\n">>
ExpansionOfC == <<"c", "1", "\n", "v", "\n">>
ExpansionOfB == <<"b", "1", "\n">> \o ExpansionOfC \o <<"%", "u", " ", "z", "\n">>

\* C14: if A contains "%import B" and B contains "%import C", then, when
\* the expansion reaches A's import line, the expansion of A has the
\* expanded lines of C in place of B's import line, inside B's content, in
\* place of A's import line, between the expansions of the lines around
\* it; if C does not exist the expansion fails with PreprocessorError and
\* returns no text.
C14_ImportTransitive ==
    Parsed =>
        \A i \in 1..Len(TopLines) :
            (TopLines[i] = ImportB /\ Reaches(i)) =>
                IF PathC \in DOMAIN fs
                THEN /\ pre_out.type = TypeOf(After(i))
                     /\ pre_out.type = "ok" =>
                            OutText = OutTextOf(Before(i)) \o ExpansionOfB
                                          \o OutTextOf(After(i))
                ELSE /\ pre_out.type = "PreprocessorError"
                     /\ pre_out.lines = <<>>

C14_Witness ==
    /\ Parsed
    /\ TopLines = <<ImportB, <<"%", "e", "n", "v", " ", "t", " ", "$", "{", "V", "}", "\n">>>>
    /\ PathC \in DOMAIN fs
    /\ OutText = ExpansionOfB \o <<"t", " ", "v", "\n">>

\* the path that the claim has an import resolve to
ClaimedPath(ev) ==
    IF StartsWith(ev.rest, <<"/">>) THEN ev.rest
    ELSE join(dirname(ev.src), ev.rest)

\* C15: every import directive with a relative path, at any nesting depth,
\* is resolved against the directory of the file that contains the
\* directive; an absolute path is used as it is.
C15_ImportRelativeToContainingFile ==
    Parsed => \A n \in 1..Len(pre_out.imports) :
                  pre_out.imports[n].path = ClaimedPath(pre_out.imports[n])

\* the first word of a line: its characters before the first whitespace
FirstWord(l) ==
    IF \E k \in 1..Len(l) : l[k] \in Whitespace
    THEN SubSeq(l, 1, (CHOOSE k \in 1..Len(l) :
                          l[k] \in Whitespace /\
                          \A j \in 1..(k - 1) : l[j] \notin Whitespace) - 1)
    ELSE l

\* a line that begins with "%" and whose first word is no directive
UnknownDirective(l) ==
    /\ StartsWith(l, PREFIX)
    /\ FirstWord(l) \notin {PREFIX \o <<"i", "m", "p", "o", "r", "t">>, PREFIX \o <<"e", "n", "v">>}
    /\ FirstWord(l) \notin DOMAIN expanders

\* C16: a line that begins with "%" and whose first word is neither a
\* built-in nor a caller-registered directive raises no error (parse()
\* ends as it does for the file without that line) and is returned
\* unchanged between the expansions of the lines before and after it.
C16_UnknownDirectivePassesThrough ==
    Parsed =>
        \A i \in 1..Len(TopLines) :
            UnknownDirective(TopLines[i]) =>
                /\ pre_out.type = TypeOf(Before(i) \o After(i))
                /\ pre_out.type = "ok" =>
                       OutText = OutTextOf(Before(i)) \o TopLines[i]
                                     \o OutTextOf(After(i))

C16_Witness ==
    /\ Parsed
    /\ TopLines = <<ImportB, <<"%", "f", "o", "o", " ", "x", "\n">>>>
    /\ expanders # EmptyDict
    /\ OutText = ExpansionOfB \o <<"%", "f", "o", "o", " ", "x", "\n">>

\* the registrations before the n-th that took effect for the same name
EarlierSame(n) ==
    {m \in 1..(n - 1) : /\ add_log[m].statement = add_log[n].statement
                        /\ ~add_log[m].raised}

\* C17: add_expander raises KeyError exactly when a directive of the same
\* name is already registered, and then the earlier registration is kept:
\* each registered name is bound to the callback of its first registration.
C17_DuplicateRegistrationFails ==
    \A n \in 1..Len(add_log) :
        /\ add_log[n].raised <=> EarlierSame(n) # {}
        /\ EarlierSame(n) = {} =>
               /\ PREFIX \o add_log[n].statement \in DOMAIN expanders
               /\ expanders[PREFIX \o add_log[n].statement]
                      = add_log[n].callback

\* C19: every failure of the expansion of an import or env directive
\* surfaces from parse() as PreprocessorError and as no other exception,
\* and then no expanded text is returned.
C19_OnlyPreprocessorError ==
    Parsed => /\ pre_out.type \in {"ok", "PreprocessorError"}
              /\ pre_out.type = "PreprocessorError" => pre_out.lines = <<>>
\* the lines of the text that the built-in expansion produced
ExpandedLines == readlines(Concat(pre_out.expanded))

Registered(l) == FirstWord(l) \in DOMAIN expanders

\* the calls that the claim has the second pass make, in order
RECURSIVE ClaimedCalls(_)
ClaimedCalls(lines) ==
    IF lines = <<>> THEN <<>>
    ELSE (IF Registered(Head(lines))
          THEN <<[name |-> FirstWord(Head(lines)), arg |-> Head(lines)]>>
          ELSE <<>>) \o ClaimedCalls(Tail(lines))

\* C20: every line of the expanded text that begins with a caller
\* registered directive name, lines that came in through an import
\* included, is passed to that directive's expander exactly once, and the
\* expander's output is returned as it is, not scanned again.
C20_RegisteredExpandersOncePerLine ==
    (Parsed /\ pre_out.type = "ok") =>
        /\ pre_out.calls = ClaimedCalls(ExpandedLines)
        /\ OutText = Concat([n \in 1..Len(ExpandedLines) |->
                        IF Registered(ExpandedLines[n])
                        THEN Callback(expanders[FirstWord(ExpandedLines[n])],
                                      ExpandedLines[n])
                        ELSE ExpandedLines[n]])

\* C25: whenever Runner.run goes on from a step to the next step, or to
\* "return 0" after the last step, the step's kill was called with
\* success = TRUE; kill gets success = FALSE only when the run stops at
\* that step.  This for every value a hook may return, None included.
C25_SuccessWhenRunGoesOn ==
    (pc = "for_myclass" /\ steplog # <<>> /\ Last(steplog).hook = "kill")
        => Last(steplog).val = TRUE

\* C26: eval_shell_argument always completes once the shell command has
\* produced its output, whatever its length: no reachable state has the
\* shell blocked on the full pipe while eval_shell_argument waits for the
\* shell to exit; when it returns, it returns the first 1024 bytes of the
\* output at most.
C26_NeverBlockedOnFullPipe ==
    /\ ~(WriterBlocked /\ ev_pc = "call")
    /\ ev_pc = "returned" => evaluated = Min(sh_output, READ_MAX)

====
